---------------------------- MODULE Spec2Model ----------------------------
(***************************************************************************)
(* Model of the HLK-LD2450 serial driver (serial_protocol.py): the command *)
(* codec (send_command and the named command builders) and the telemetry   *)
(* frame decoder (read_radar_data).                                        *)
(*                                                                         *)
(* Bytes are the integers 0..255, a bytes object is a sequence of them, a  *)
(* str is a sequence of one-character strings.  A call is one step: the    *)
(* builder's whole body (argument check, write, read, parse, print), with  *)
(* the buffer the stream's read_until returns drawn from Responses.        *)
(***************************************************************************)
EXTENDS Integers, Sequences, FiniteSets, TLC

(***************************************************************************)
(* Bounds of the model.                                                    *)
(***************************************************************************)
\* number of command calls issued on one stream
MaxCalls == 2
\* bytes of padding put before / after a telemetry chunk
MaxPad == 1

(***************************************************************************)
(* Module constants, serial_protocol.py lines 5-22.                        *)
(***************************************************************************)
COMMAND_HEADER == <<253, 252, 251, 250>>
COMMAND_TAIL == <<4, 3, 2, 1>>
REPORT_HEADER == <<170, 255, 3, 0>>
REPORT_TAIL == <<85, 204>>
BYTES_FROM_HEX_EMPTY == <<>>
POSSIBLE_BAUDRATES == <<9600, 19200, 38400, 57600, 115200, 230400, 256000, 460800>>

(***************************************************************************)
(* Python primitives the driver uses.                                      *)
(***************************************************************************)
Min(a, b) == IF a < b THEN a ELSE b

\* 256 ** n
RECURSIVE Pow256(_)
Pow256(n) == IF n = 0 THEN 1 ELSE 256 * Pow256(n - 1)

\* b[lo:hi] for 0 <= lo <= hi: the slice is clipped to the buffer, never raises
Slice(b, lo, hi) ==
    LET h == Min(hi, Len(b))
    IN  IF lo >= h THEN <<>> ELSE [i \in 1..(h - lo) |-> b[lo + i]]

\* int.from_bytes(b, byteorder="little", signed=False)
RECURSIVE UnsignedLE(_)
UnsignedLE(b) ==
    IF Len(b) = 0 THEN 0 ELSE b[1] + 256 * UnsignedLE(Tail(b))

\* int.from_bytes(b, byteorder="little", signed=True): two's complement on
\* 8 * len(b) bits; the empty buffer gives 0
SignedLE(b) ==
    LET n == Len(b)
    IN  IF n = 0 THEN 0
        ELSE LET top == b[n]
                 low == UnsignedLE(SubSeq(b, 1, n - 1))
             IN  IF top >= 128 THEN low + (top - 256) * Pow256(n - 1)
                 ELSE low + top * Pow256(n - 1)

\* n.to_bytes(2, byteorder="little") for 0 <= n < 65536
ToBytes2LE(n) == <<n % 256, n \div 256>>

\* needle in b, for bytes objects
RECURSIVE FindFrom(_, _, _)
FindFrom(b, needle, i) ==
    IF i + Len(needle) - 1 > Len(b) THEN FALSE
    ELSE IF \A j \in 1..Len(needle) : b[i + j - 1] = needle[j] THEN TRUE
    ELSE FindFrom(b, needle, i + 1)

Contains(b, needle) == FindFrom(b, needle, 1)

(***************************************************************************)
(* read_radar_data.                                                        *)
(***************************************************************************)
\* the field read as plain two's complement, without the correction of lines 585-587
DecodeSigned_TwosComplement(field) == SignedLE(field)

\* lines 576-587 for one signed field: the two's-complement read, then
\* "x if x >= 0 else -(2**15) - x"
DecodeSigned(field) ==
    LET x == SignedLE(field)
    IN  IF x >= 0 THEN x ELSE (0 - 32768) - x

\* the loop body with distance_resolution read signed like the other fields
DecodeTarget_SignedResolution(target_bytes) ==
    << DecodeSigned(Slice(target_bytes, 0, 2)),
       DecodeSigned(Slice(target_bytes, 2, 4)),
       DecodeSigned(Slice(target_bytes, 4, 6)),
       SignedLE(Slice(target_bytes, 6, 8)) >>

\* lines 575-590, the body of the loop for one 8-byte target
DecodeTarget(target_bytes) ==
    << DecodeSigned(Slice(target_bytes, 0, 2)),
       DecodeSigned(Slice(target_bytes, 2, 4)),
       DecodeSigned(Slice(target_bytes, 4, 6)),
       UnsignedLE(Slice(target_bytes, 6, 8)) >>

\* read_radar_data with the length check of line 559 written "< 30"
read_radar_data_ShortOnly(serial_port_line) ==
    IF ~Contains(serial_port_line, REPORT_HEADER)
    THEN [ret |-> [kind |-> "None", val |-> <<>>],
          out |-> <<"Serial port line corrupted - report header missing">>]
    ELSE IF ~Contains(serial_port_line, REPORT_TAIL)
    THEN [ret |-> [kind |-> "None", val |-> <<>>],
          out |-> <<"Serial port line corrupted - report tail missing">>]
    ELSE IF Len(serial_port_line) < 30
    THEN [ret |-> [kind |-> "None", val |-> <<>>],
          out |-> <<"Serial port line corrupted - not 30 bytes long">>]
    ELSE [ret |-> [kind |-> "value",
                   val |-> DecodeTarget(Slice(serial_port_line, 4, 12))
                           \o DecodeTarget(Slice(serial_port_line, 12, 20))
                           \o DecodeTarget(Slice(serial_port_line, 20, 28))],
          out |-> <<>>]

\* the return value ([kind |-> "None"] or the 12-tuple) and the line printed
read_radar_data(serial_port_line) ==
    IF ~Contains(serial_port_line, REPORT_HEADER)
    THEN [ret |-> [kind |-> "None", val |-> <<>>],
          out |-> <<"Serial port line corrupted - report header missing">>]
    ELSE IF ~Contains(serial_port_line, REPORT_TAIL)
    THEN [ret |-> [kind |-> "None", val |-> <<>>],
          out |-> <<"Serial port line corrupted - report tail missing">>]
    ELSE IF Len(serial_port_line) # 30
    THEN [ret |-> [kind |-> "None", val |-> <<>>],
          out |-> <<"Serial port line corrupted - not 30 bytes long">>]
    ELSE [ret |-> [kind |-> "value",
                   val |-> DecodeTarget(Slice(serial_port_line, 4, 12))
                           \o DecodeTarget(Slice(serial_port_line, 12, 20))
                           \o DecodeTarget(Slice(serial_port_line, 20, 28))],
          out |-> <<>>]

(***************************************************************************)
(* Inputs of the telemetry decoder.                                        *)
(***************************************************************************)
Zeros(n) == [i \in 1..n |-> 0]

\* every 16-bit value a field can carry
RawValues == 0..(256 * 256 - 1)

\* two fillings of the 24 target bytes: all zero, and every field different
TargetFills == { Zeros(24), [i \in 1..24 |-> i] }

\* a well-formed frame whose 16-bit field number k (0..11) carries raw
FrameWith(fill, k, raw) ==
    REPORT_HEADER
    \o [i \in 1..24 |-> IF i = 2 * k + 1 THEN raw % 256
                        ELSE IF i = 2 * k + 2 THEN raw \div 256
                        ELSE fill[i]]
    \o REPORT_TAIL

\* the values tried in every field of every target
SampleRaws == {0, 1, 16, 255, 256, 32767, 32768, 32784, 52309, 65535}

\* chunks a read_until(REPORT_TAIL) can hand over that are not one clean frame:
\* markers missing, cut or displaced, and bodies of the wrong length
ManglesOfHeader == { REPORT_HEADER, <<170, 255, 3>>, <<170, 255, 3, 1>>, <<>> }
ManglesOfTail == { REPORT_TAIL, <<85>>, <<204, 85>>, <<>> }
BodyLens == {0} \cup ((24 - MaxPad - 1)..(24 + MaxPad))

MangledLines ==
    { Zeros(pre) \o hdr \o body \o tl \o Zeros(post) :
        pre \in 0..MaxPad, hdr \in ManglesOfHeader,
        body \in { [i \in 1..n |-> i] : n \in BodyLens },
        tl \in ManglesOfTail, post \in 0..MaxPad }

(***************************************************************************)
(* Python text primitives: format spec "04x", bytes.fromhex, str(int),     *)
(* bytes.decode("utf-8"), list.index.                                      *)
(***************************************************************************)
HexDigits == <<"0", "1", "2", "3", "4", "5", "6", "7",
               "8", "9", "a", "b", "c", "d", "e", "f">>

\* the hexadecimal digits of n >= 0, most significant first, no padding
RECURSIVE HexOf(_)
HexOf(n) ==
    IF n < 16 THEN <<HexDigits[n + 1]>>
    ELSE HexOf(n \div 16) \o <<HexDigits[(n % 16) + 1]>>

\* text padded on the left with "0" to at least width characters
RECURSIVE ZeroPad(_, _)
ZeroPad(text, width) ==
    IF Len(text) >= width THEN text ELSE ZeroPad(<<"0">> \o text, width)

\* f"{v:04x}": sign first, then the digits of |v| zero-padded so that the
\* whole field is at least 4 characters; never truncated
Format04x(v) ==
    IF v < 0 THEN <<"-">> \o ZeroPad(HexOf(0 - v), 3)
    ELSE ZeroPad(HexOf(v), 4)

\* the value of a hexadecimal digit character, -1 for any other character
HexValue(c) ==
    IF \E d \in 1..16 : HexDigits[d] = c
    THEN (CHOOSE d \in 1..16 : HexDigits[d] = c) - 1
    ELSE 0 - 1

\* bytes.fromhex(text): whitespace between bytes is skipped, each byte is two
\* adjacent hexadecimal digits; anything else raises ValueError
RECURSIVE BytesFromHex(_)
BytesFromHex(text) ==
    IF Len(text) = 0 THEN [ok |-> TRUE, bytes |-> <<>>]
    ELSE IF text[1] = " " THEN BytesFromHex(Tail(text))
    ELSE IF Len(text) < 2 \/ HexValue(text[1]) < 0 \/ HexValue(text[2]) < 0
    THEN [ok |-> FALSE, bytes |-> <<>>]
    ELSE LET rest == BytesFromHex(SubSeq(text, 3, Len(text)))
         IN  IF rest.ok
             THEN [ok |-> TRUE,
                   bytes |-> <<16 * HexValue(text[1]) + HexValue(text[2])>>
                             \o rest.bytes]
             ELSE rest

\* " ".join(fields)
RECURSIVE JoinSpace(_)
JoinSpace(fields) ==
    IF Len(fields) = 0 THEN <<>>
    ELSE IF Len(fields) = 1 THEN fields[1]
    ELSE fields[1] \o <<" ">> \o JoinSpace(Tail(fields))

DecDigits == <<"0", "1", "2", "3", "4", "5", "6", "7", "8", "9">>

\* str(n) for n >= 0
RECURSIVE DecOf(_)
DecOf(n) ==
    IF n < 10 THEN <<DecDigits[n + 1]>>
    ELSE DecOf(n \div 10) \o <<DecDigits[(n % 10) + 1]>>

\* f"{n}" for an int
DecStr(n) == IF n < 0 THEN <<"-">> \o DecOf(0 - n) ELSE DecOf(n)

IsCont(b, i) == i <= Len(b) /\ b[i] >= 128 /\ b[i] <= 191

\* the length of the well-formed UTF-8 sequence starting at b[i], 0 if none
Utf8SeqLen(b, i) ==
    LET c == b[i]
        c2 == IF i + 1 <= Len(b) THEN b[i + 1] ELSE 0
    IN  IF c < 128 THEN 1
        ELSE IF c >= 194 /\ c <= 223 THEN (IF IsCont(b, i + 1) THEN 2 ELSE 0)
        ELSE IF c >= 224 /\ c <= 239
        THEN (IF /\ IsCont(b, i + 1) /\ IsCont(b, i + 2)
                 /\ (c = 224 => c2 >= 160)
                 /\ (c = 237 => c2 <= 159)
              THEN 3 ELSE 0)
        ELSE IF c >= 240 /\ c <= 244
        THEN (IF /\ IsCont(b, i + 1) /\ IsCont(b, i + 2) /\ IsCont(b, i + 3)
                 /\ (c = 240 => c2 >= 144)
                 /\ (c = 244 => c2 <= 143)
              THEN 4 ELSE 0)
        ELSE 0

\* the code point of the well-formed sequence of n bytes starting at b[i]
Utf8CodePoint(b, i, n) ==
    IF n = 1 THEN b[i]
    ELSE IF n = 2 THEN (b[i] - 192) * 64 + (b[i + 1] - 128)
    ELSE IF n = 3
    THEN (b[i] - 224) * 4096 + (b[i + 1] - 128) * 64 + (b[i + 2] - 128)
    ELSE (b[i] - 240) * 262144 + (b[i + 1] - 128) * 4096
         + (b[i + 2] - 128) * 64 + (b[i + 3] - 128)

\* b.decode("utf-8") from position i: the code points, or UnicodeDecodeError
RECURSIVE Utf8DecodeFrom(_, _)
Utf8DecodeFrom(b, i) ==
    IF i > Len(b) THEN [ok |-> TRUE, text |-> <<>>]
    ELSE LET n == Utf8SeqLen(b, i)
         IN  IF n = 0 THEN [ok |-> FALSE, text |-> <<>>]
             ELSE LET rest == Utf8DecodeFrom(b, i + n)
                  IN  IF rest.ok
                      THEN [ok |-> TRUE,
                            text |-> <<Utf8CodePoint(b, i, n)>> \o rest.text]
                      ELSE rest

Utf8Decode(b) == Utf8DecodeFrom(b, 1)

\* list.index(x) counted from 1
ListIndex_OneBased(list, x) == CHOOSE i \in 1..Len(list) : list[i] = x

\* list.index(x) for x in list: the 0-based position of its first occurrence
ListIndex(list, x) ==
    (CHOOSE i \in 1..Len(list) :
        list[i] = x /\ \A j \in 1..(i - 1) : list[j] # x) - 1

\* x in list
InList(list, x) == \E i \in 1..Len(list) : list[i] = x

(***************************************************************************)
(* send_command and _get_command_success.                                  *)
(***************************************************************************)
\* lines 54-62
get_command_success(resp) == SignedLE(Slice(resp, 8, 10)) = 0

\* send_command reading the status from the low byte alone
send_command_LowByteOnly(intra_frame_length, command_word, command_value, read) ==
    [called |-> TRUE,
     command |-> COMMAND_HEADER \o intra_frame_length \o command_word
                 \o command_value \o COMMAND_TAIL,
     response |-> read,
     success |-> SignedLE(Slice(read, 8, 9)) = 0]

\* lines 83-98; read is what ser.read_until(COMMAND_TAIL) returns
send_command(intra_frame_length, command_word, command_value, read) ==
    [called |-> TRUE,
     command |-> COMMAND_HEADER \o intra_frame_length \o command_word
                 \o command_value \o COMMAND_TAIL,
     response |-> read,
     success |-> SignedLE(Slice(read, 8, 10)) = 0]

(***************************************************************************)
(* What read_until(COMMAND_TAIL) may return: an acknowledgement cut to any *)
(* length (the empty buffer is a timeout), with any status and payload.    *)
(***************************************************************************)
\* longest buffer returned
MaxRespLen == 40

StatusFields == { <<0, 0>>, <<1, 0>>, <<0, 1>>, <<255, 255>> }

\* bytes from offset 10 on
Payloads ==
    { Zeros(30),
      \* firmware type 1, major 2, minor 3, then the tail
      <<1, 0, 2, 0, 3, 0, 0, 0, 4, 3, 2, 1>> \o Zeros(18),
      \* the text 8F27C1A2B3D4, then the tail
      <<56, 70, 50, 55, 67, 49, 65, 50, 66, 51, 68, 52, 4, 3, 2, 1>> \o Zeros(14),
      \* mode 1, region 1 = (0, 0, -1000, 1000), regions 2 and 3 zero, then the tail
      <<1, 0, 0, 0, 0, 0, 24, 252, 232, 3>> \o Zeros(16) \o COMMAND_TAIL,
      [i \in 1..30 |-> 255] }

Responses ==
    { Slice(COMMAND_HEADER \o <<4, 0, 255, 1>> \o st \o pl \o Zeros(MaxRespLen), 0, n) :
        n \in 0..MaxRespLen, st \in StatusFields, pl \in Payloads }

(***************************************************************************)
(* State.                                                                  *)
(***************************************************************************)
VARIABLES
    pc,        \* "idle": no call in progress; "returned": a call has returned
    call,      \* the call made: [op |-> name, args |-> its arguments]
    ret,       \* what it gave back: [kind |-> "None" | "value" | "raise", val]
    send,      \* the send_command activation of the call, see NoSend
    stdout,    \* what the call printed: <<>> or <<text, value, ...>>
    ser,       \* the stream: [writes |-> #write calls, reads |-> #read_until calls]
    rx,        \* the bytes the device has sent that no read has taken yet
    ack,       \* the acknowledgement the device sent for the command in flight
    tele,      \* the telemetry loop of print_targets, see NoTele
    plot,      \* the reader thread, the queue and update_plot, see NoPlot
    retry      \* the connectivity loop of parse_args, see NoRetry

vars == <<pc, call, ret, send, stdout, ser, rx, ack, tele, plot, retry>>

\* what the command codec and the decoder alone never touch
beyond == <<rx, ack, tele, plot, retry>>

NoCall == [op |-> "", args |-> <<>>]
NoRet == [kind |-> "", val |-> <<>>]
\* send_command not called: nothing written, nothing read
NoSend == [called |-> FALSE, command |-> <<>>, response |-> <<>>, success |-> FALSE]

\* print_targets before its first read: nothing discarded, nothing delivered
NoTele == [running |-> TRUE, discards |-> 0, placed |-> <<>>, delivered |-> <<>>]

\* draw_and_update after serial_thread.start(): an empty queue.Queue(), the
\* reader before its first read_until, no update_plot call in progress
NoChunk == [n |-> 0, data |-> <<>>]
NoPlot == [queue |-> <<>>, reader |-> "read", data |-> NoChunk,
           update |-> "idle", offsets |-> <<>>,
           readLog |-> <<>>, gotLog |-> <<>>]

\* parse_args with the port open, line 68 done: number_of_tries = 5,
\* version not yet bound
NumberOfTries == 5
NoRetry == [pc |-> "while", number_of_tries |-> NumberOfTries, version |-> NoRet,
            results |-> <<>>, ret |-> NoRet]

Init ==
    /\ pc = "idle"
    /\ call = NoCall
    /\ ret = NoRet
    /\ send = NoSend
    /\ stdout = <<>>
    /\ ser = [writes |-> 0, reads |-> 0]
    /\ rx = <<>>
    /\ ack = <<>>
    /\ tele = NoTele
    /\ plot = NoPlot
    /\ retry = NoRetry

\* the caller is done with the result; the call's locals are gone
Return ==
    /\ pc = "returned"
    /\ pc' = "idle"
    /\ call' = NoCall
    /\ ret' = NoRet
    /\ send' = NoSend
    /\ stdout' = <<>>
    /\ UNCHANGED ser
    /\ UNCHANGED beyond

\* read_radar_data(serial_port_line): no stream access
ReadRadarData(line) ==
    /\ pc = "idle"
    /\ \E r \in {read_radar_data(line)} :
         /\ call' = [op |-> "read_radar_data", args |-> line]
         /\ ret' = r.ret
         /\ stdout' = r.out
    /\ pc' = "returned"
    /\ UNCHANGED <<send, ser>>
    /\ UNCHANGED beyond

\* a clean frame with every 16-bit value in x, y and speed of target 1
DecodeSweep ==
    /\ pc = "idle"
    /\ \E k \in 0..2, raw \in RawValues :
         \E line \in {FrameWith(Zeros(24), k, raw)} : ReadRadarData(line)

\* a clean frame with the sample values in each field of each target
DecodeSample ==
    /\ pc = "idle"
    /\ \E fill \in TargetFills, k \in 0..11, raw \in SampleRaws :
         \E line \in {FrameWith(fill, k, raw)} : ReadRadarData(line)

\* a chunk that is not one clean frame
DecodeMangled ==
    /\ pc = "idle"
    /\ \E line \in MangledLines : ReadRadarData(line)

NextDecode == DecodeMangled \/ DecodeSample \/ DecodeSweep \/ Return

SpecDecode == Init /\ [][NextDecode]_vars

(***************************************************************************)
(* The named command builders.  Each action is one call: the arguments are *)
(* evaluated, send_command writes the frame and reads the acknowledgement, *)
(* the builder parses it, prints and returns.                              *)
(***************************************************************************)
None == [kind |-> "None", val |-> <<>>]
Value(v) == [kind |-> "value", val |-> v]
Raise(e) == [kind |-> "raise", val |-> e]

\* a call may start: the caller is idle and the stream has calls left
CanCall == pc = "idle" /\ ser.writes < MaxCalls

\* the call went through send_command sc and ended with r = [ret, out]
Called(op, args, sc, r) ==
    /\ call' = [op |-> op, args |-> args]
    /\ send' = sc
    /\ ret' = r.ret
    /\ stdout' = r.out
    /\ ser' = [writes |-> ser.writes + 1, reads |-> ser.reads + 1]
    /\ pc' = "returned"
    /\ UNCHANGED beyond

\* the call raised e while its arguments were evaluated: send_command not reached
Raised(op, args, e) ==
    /\ call' = [op |-> op, args |-> args]
    /\ send' = NoSend
    /\ ret' = Raise(e)
    /\ stdout' = <<>>
    /\ pc' = "returned"
    /\ UNCHANGED ser
    /\ UNCHANGED beyond

\* "if command_success: print(ok) else: print(failed); return command_success"
BoolResult(sc, ok, failed) ==
    [ret |-> Value(sc.success), out |-> IF sc.success THEN ok ELSE failed]

\* lines 112-125
EnableConfigurationMode ==
    /\ CanCall
    /\ \E read \in Responses :
       \E sc \in {send_command(ToBytes2LE(4), <<255, 0>>, <<1, 0>>, read)} :
       \E r \in {BoolResult(sc, <<"Configuration mode enabled">>,
                                <<"Configuration enable failed">>)} :
          Called("enable_configuration_mode", <<>>, sc, r)

\* lines 137-151
EndConfigurationMode ==
    /\ CanCall
    /\ \E read \in Responses :
       \E sc \in {send_command(ToBytes2LE(2), <<254, 0>>, BYTES_FROM_HEX_EMPTY, read)} :
       \E r \in {BoolResult(sc, <<"Configuration mode disabled">>,
                                <<"Configuration disable failed">>)} :
          Called("end_configuration_mode", <<>>, sc, r)

\* lines 163-175
SingleTargetTracking ==
    /\ CanCall
    /\ \E read \in Responses :
       \E sc \in {send_command(ToBytes2LE(2), <<128, 0>>, BYTES_FROM_HEX_EMPTY, read)} :
       \E r \in {BoolResult(sc, <<"Single target tracking mode enabled">>,
                                <<"Single target tracking mode enable failed">>)} :
          Called("single_target_tracking", <<>>, sc, r)

\* lines 187-200
MultiTargetTracking ==
    /\ CanCall
    /\ \E read \in Responses :
       \E sc \in {send_command(ToBytes2LE(2), <<144, 0>>, BYTES_FROM_HEX_EMPTY, read)} :
       \E r \in {BoolResult(sc, <<"Multi target tracking mode enabled">>,
                                <<"Multi target tracking mode enable failed">>)} :
          Called("multi_target_tracking", <<>>, sc, r)

\* lines 218-226
query_target_tracking_result(sc) ==
    IF ~sc.success
    THEN [ret |-> None, out |-> <<"Query target tracking mode failed">>]
    ELSE LET tracking_type_int == SignedLE(Slice(sc.response, 10, 12))
         IN  [ret |-> Value(tracking_type_int),
              out |-> <<"Tracking mode: ", tracking_type_int>>]

\* lines 211-226
QueryTargetTracking ==
    /\ CanCall
    /\ \E read \in Responses :
       \E sc \in {send_command(ToBytes2LE(2), <<145, 0>>, BYTES_FROM_HEX_EMPTY, read)} :
       \E r \in {query_target_tracking_result(sc)} :
          Called("query_target_tracking", <<>>, sc, r)

\* lines 244-266
read_firmware_version_result(sc, verbose) ==
    IF ~sc.success
    THEN [ret |-> None,
          out |-> IF verbose THEN <<"Failed to read firmware version failed">>
                  ELSE <<>>]
    ELSE LET firmware_type == SignedLE(Slice(sc.response, 10, 12))
             major_version_number == SignedLE(Slice(sc.response, 12, 14))
             minor_version_number == SignedLE(Slice(sc.response, 14, 18))
             firmware_version ==
                 <<"V">> \o DecStr(firmware_type)
                 \o <<".">> \o DecStr(major_version_number)
                 \o <<".">> \o DecStr(minor_version_number)
         IN  [ret |-> Value(firmware_version),
              out |-> IF verbose THEN <<"Firmware version: ", firmware_version>>
                      ELSE <<>>]

\* lines 237-266
ReadFirmwareVersion ==
    /\ CanCall
    /\ \E verbose \in BOOLEAN, read \in Responses :
       \E sc \in {send_command(ToBytes2LE(2), <<160, 0>>, BYTES_FROM_HEX_EMPTY, read)} :
       \E r \in {read_firmware_version_result(sc, verbose)} :
          Called("read_firmware_version", <<verbose>>, sc, r)

\* the rates a caller may ask for: the eight valid ones and some others
BaudInputs ==
    { POSSIBLE_BAUDRATES[i] : i \in 1..Len(POSSIBLE_BAUDRATES) }
    \cup { 0, 4800, 9601, 250000, 921600 }

\* lines 278-300
SetSerialPortBaudRate ==
    /\ CanCall
    /\ \E baud_rate \in BaudInputs :
         IF ~InList(POSSIBLE_BAUDRATES, baud_rate)
         THEN Raised("set_serial_port_baud_rate", <<baud_rate>>, "ValueError")
         ELSE \E baudrate_index \in {ListIndex(POSSIBLE_BAUDRATES, baud_rate)} :
              \E read \in Responses :
              \E sc \in {send_command(ToBytes2LE(4), <<161, 0>>,
                                      ToBytes2LE(baudrate_index), read)} :
              \E r \in {BoolResult(sc, <<"Serial port baud rate set to ", baud_rate>>,
                                       <<"Set serial port baud rate failed">>)} :
                 Called("set_serial_port_baud_rate", <<baud_rate>>, sc, r)

\* lines 311-325
RestoreFactorySettings ==
    /\ CanCall
    /\ \E read \in Responses :
       \E sc \in {send_command(ToBytes2LE(2), <<162, 0>>, BYTES_FROM_HEX_EMPTY, read)} :
       \E r \in {BoolResult(sc, <<"Factory settings restored">>,
                                <<"Restore factory settings failed">>)} :
          Called("restore_factory_settings", <<>>, sc, r)

\* lines 337-352
RestartModule ==
    /\ CanCall
    /\ \E read \in Responses :
       \E sc \in {send_command(ToBytes2LE(2), <<163, 0>>, BYTES_FROM_HEX_EMPTY, read)} :
       \E r \in {BoolResult(sc, <<"Module restarted">>, <<"Module restart failed">>)} :
          Called("restart_module", <<>>, sc, r)

\* lines 364-379
BluetoothSetup ==
    /\ CanCall
    /\ \E bluetooth_on \in BOOLEAN, read \in Responses :
       \E sc \in {send_command(ToBytes2LE(4), <<164, 0>>,
                               IF bluetooth_on THEN <<1, 0>> ELSE <<0, 0>>, read)} :
       \E r \in {BoolResult(sc, <<"Bluetooth ",
                                  IF bluetooth_on THEN "enabled" ELSE "disabled">>,
                                <<"Bluetooth setup failed">>)} :
          Called("bluetooth_setup", <<bluetooth_on>>, sc, r)

\* lines 398-405
get_mac_address_result(sc) ==
    IF ~sc.success
    THEN [ret |-> None, out |-> <<"Get MAC address failed">>]
    ELSE LET decoded == Utf8Decode(Slice(sc.response, 10, 22))
         IN  IF ~decoded.ok
             THEN [ret |-> Raise("UnicodeDecodeError"), out |-> <<>>]
             ELSE [ret |-> Value(decoded.text),
                   out |-> <<"MAC address: ", decoded.text>>]

\* lines 391-405
GetMacAddress ==
    /\ CanCall
    /\ \E read \in Responses :
       \E sc \in {send_command(ToBytes2LE(4), <<165, 0>>, <<1, 0>>, read)} :
       \E r \in {get_mac_address_result(sc)} :
          Called("get_mac_address", <<>>, sc, r)

\* the 13 little-endian signed 16-bit fields that start at offset base of buf
ZoneFields(buf, base) ==
    [i \in 1..13 |-> SignedLE(Slice(buf, base + 2 * (i - 1), base + 2 * i))]

\* lines 429-468
query_zone_filtering_result(sc) ==
    IF ~sc.success
    THEN [ret |-> None, out |-> <<"Query zone filtering mode failed">>]
    ELSE LET fields == ZoneFields(sc.response, 10)
         IN  [ret |-> Value(fields),
              out |-> <<"Zone filtering mode: ", fields[1]>>]

\* lines 421-468
QueryZoneFiltering ==
    /\ CanCall
    /\ \E read \in Responses :
       \E sc \in {send_command(ToBytes2LE(2), <<193, 0>>, BYTES_FROM_HEX_EMPTY, read)} :
       \E r \in {query_zone_filtering_result(sc)} :
          Called("query_zone_filtering", <<>>, sc, r)

\* values tried for the arguments of set_zone_filtering, all signed 16-bit
ZoneSamples == { 0 - 32768, 0 - 1000, 0 - 1, 0, 1, 255, 256, 1000, 32767 }

\* mode 1, region 1 = (0, 0, -1000, 1000), regions 2 and 3 zero
ZoneExample == <<1, 0, 0, 0 - 1000, 1000, 0, 0, 0, 0, 0, 0, 0, 0>>

\* the argument lists tried: the defaults and the example, each with one
\* argument replaced by a sample value
ZoneArgs ==
    { [i \in 1..13 |-> IF i = p THEN v ELSE base[i]] :
        base \in {Zeros(13), ZoneExample}, p \in 1..13, v \in ZoneSamples }

\* lines 514-525: the f-string of 13 "04x" fields separated by spaces, through
\* bytes.fromhex
zone_command_value(args) ==
    BytesFromHex(JoinSpace([i \in 1..13 |-> Format04x(args[i])]))

\* lines 509-534
SetZoneFiltering ==
    /\ CanCall
    /\ \E args \in ZoneArgs :
       \E command_value \in {zone_command_value(args)} :
         IF ~command_value.ok
         THEN Raised("set_zone_filtering", args, "ValueError")
         ELSE \E read \in Responses :
              \E sc \in {send_command(ToBytes2LE(26), <<194, 0>>,
                                      command_value.bytes, read)} :
              \E r \in {BoolResult(sc, <<"Zone filtering mode set to ", args[1]>>,
                                       <<"Set zone filtering mode failed">>)} :
                 Called("set_zone_filtering", args, sc, r)

\* _get_command_success(response) on a buffer: no stream access
GetCommandSuccess ==
    /\ pc = "idle"
    /\ \E resp \in Responses :
         /\ call' = [op |-> "_get_command_success", args |-> resp]
         /\ ret' = Value(get_command_success(resp))
    /\ send' = NoSend
    /\ stdout' = <<>>
    /\ pc' = "returned"
    /\ UNCHANGED ser
    /\ UNCHANGED beyond

Next ==
    \/ EnableConfigurationMode
    \/ EndConfigurationMode
    \/ SingleTargetTracking
    \/ MultiTargetTracking
    \/ QueryTargetTracking
    \/ ReadFirmwareVersion
    \/ SetSerialPortBaudRate
    \/ RestoreFactorySettings
    \/ RestartModule
    \/ BluetoothSetup
    \/ GetMacAddress
    \/ QueryZoneFiltering
    \/ SetZoneFiltering
    \/ GetCommandSuccess
    \/ Return

Spec == Init /\ [][Next]_vars

(***************************************************************************)
(* Properties of the telemetry decoder.                                    *)
(***************************************************************************)
Decoded == pc = "returned" /\ call.op = "read_radar_data" /\ ret.kind = "value"

\* the 16-bit little-endian value at 0-based byte offset o of the line decoded
RawAt(o) == call.args[o + 1] + 256 * call.args[o + 2]

\* the sign-magnitude reading of a 16-bit value: sign bit raw >> 15,
\* magnitude raw & 0x7FFF
SignMagnitude(raw) ==
    IF raw \div 32768 = 1 THEN 0 - (raw % 32768) ELSE raw % 32768

\* m occurs in b as a contiguous run of bytes
Occurs(b, m) ==
    \E i \in 1..(Len(b) - Len(m) + 1) : SubSeq(b, i, i + Len(m) - 1) = m

\* C1: in every frame read_radar_data accepts, each x, y and speed field
\* holding the 16-bit little-endian value raw is returned as -(raw & 0x7FFF)
\* when raw >> 15 = 1 and as +(raw & 0x7FFF) otherwise.
C1_SignMagnitudeDecode ==
    Decoded =>
        \A t \in 0..2, f \in 0..2 :
            ret.val[4 * t + f + 1] = SignMagnitude(RawAt(4 + 8 * t + 2 * f))

\* C1 witness: x of target 1 carries 0xFFFF and is returned as -32767.
C1_Witness ==
    /\ Decoded
    /\ call.args[5] = 255 /\ call.args[6] = 255
    /\ ret.val[1] = 0 - 32767

\* C4: read_radar_data returns a record exactly when the buffer holds the
\* report header, holds the report tail and is 30 bytes long; otherwise it
\* returns None and prints the reason of the first failing check, in the
\* order header, tail, length.
C4_AcceptsExactlyWellFramed ==
    (pc = "returned" /\ call.op = "read_radar_data") =>
        LET hasHeader == Occurs(call.args, REPORT_HEADER)
            hasTail == Occurs(call.args, REPORT_TAIL)
        IN  /\ ret.kind = "value" <=>
                  (hasHeader /\ hasTail /\ Len(call.args) = 30)
            /\ ret.kind \in {"value", "None"}
            /\ ret.kind = "None" =>
                  /\ ret.val = <<>>
                  /\ stdout =
                       IF ~hasHeader
                       THEN <<"Serial port line corrupted - report header missing">>
                       ELSE IF ~hasTail
                       THEN <<"Serial port line corrupted - report tail missing">>
                       ELSE <<"Serial port line corrupted - not 30 bytes long">>

\* C4 witness: a 31-byte buffer holding both markers is rejected for its length.
C4_Witness ==
    /\ pc = "returned" /\ call.op = "read_radar_data"
    /\ Occurs(call.args, REPORT_HEADER) /\ Occurs(call.args, REPORT_TAIL)
    /\ Len(call.args) = 31
    /\ ret.kind = "None"
    /\ stdout = <<"Serial port line corrupted - not 30 bytes long">>

\* C5: an accepted buffer gives 12 values, target 1 then 2 then 3, target i
\* read from bytes [4+8(i-1), 12+8(i-1)) as x, y, speed (sign-magnitude) and
\* distance_resolution (plain unsigned 16-bit, 0..65535), two bytes each;
\* three all-zero target blocks give twelve zeros.
C5_TargetLayout ==
    Decoded =>
        /\ Len(ret.val) = 12
        /\ \A i \in 1..3 :
              LET o == 4 + 8 * (i - 1)
                  v == 4 * (i - 1)
              IN  /\ ret.val[v + 1] = SignMagnitude(RawAt(o))
                  /\ ret.val[v + 2] = SignMagnitude(RawAt(o + 2))
                  /\ ret.val[v + 3] = SignMagnitude(RawAt(o + 4))
                  /\ ret.val[v + 4] = RawAt(o + 6)
                  /\ ret.val[v + 4] \in 0..65535
        /\ SubSeq(call.args, 5, 28) = Zeros(24) => ret.val = Zeros(12)

\* C5 witness: distance_resolution of target 3 carries 0xFFFF in a frame whose
\* other fields all differ; it is returned as 65535 and x of target 1 as 513.
C5_Witness ==
    /\ Decoded
    /\ call.args[27] = 255 /\ call.args[28] = 255
    /\ ret.val[12] = 65535
    /\ ret.val[1] = 513 /\ ret.val[5] = 9 + 256 * 10

(***************************************************************************)
(* Properties of the command codec.                                        *)
(***************************************************************************)
Builders ==
    { "enable_configuration_mode", "end_configuration_mode",
      "single_target_tracking", "multi_target_tracking",
      "query_target_tracking", "read_firmware_version",
      "set_serial_port_baud_rate", "restore_factory_settings",
      "restart_module", "bluetooth_setup", "get_mac_address",
      "query_zone_filtering", "set_zone_filtering" }

\* a builder has returned after writing a frame and reading a buffer
Sent == pc = "returned" /\ call.op \in Builders /\ send.called

\* the bytes of a frame between the command word and the 4-byte tail
CommandValue(frame) == SubSeq(frame, 9, Len(frame) - 4)

\* bytes [8,10) of a buffer of at least 10 bytes as a little-endian
\* two's-complement 16-bit integer
StatusOf(buf) ==
    LET raw == buf[9] + 256 * buf[10]
    IN  IF raw >= 32768 THEN raw - 65536 ELSE raw

\* C2: in every command frame a named builder writes, the little-endian
\* length field at [4,6) equals 2 + len(command_value).
C2_LengthField ==
    Sent =>
        send.command[5] + 256 * send.command[6]
            = 2 + Len(CommandValue(send.command))

\* C3: a response buffer shorter than 10 bytes gives success = False, from
\* send_command and from _get_command_success, and nothing is raised.
C3_ShortResponseFails ==
    /\ (Sent /\ Len(send.response) < 10) =>
           (send.success = FALSE /\ ret.kind # "raise")
    /\ (pc = "returned" /\ call.op = "_get_command_success" /\ Len(call.args) < 10) =>
           ret = Value(FALSE)

\* C6: for a response buffer of at least 10 bytes, the success flag of
\* send_command, and of _get_command_success on the same buffer, is true
\* exactly when bytes [8,10), little-endian two's-complement 16-bit, are 0.
C6_StatusDecidesSuccess ==
    /\ (Sent /\ Len(send.response) >= 10) =>
           /\ send.success <=> (StatusOf(send.response) = 0)
           /\ send.success = get_command_success(send.response)
    /\ (pc = "returned" /\ call.op = "_get_command_success" /\ Len(call.args) >= 10) =>
           /\ ret.kind = "value"
           /\ ret.val <=> (StatusOf(call.args) = 0)

\* C6 witness: a response with status bytes 00 01 (low byte zero, status 256)
\* has been read and reported as a failure.
C6_Witness ==
    /\ Sent
    /\ Len(send.response) >= 10
    /\ send.response[9] = 0 /\ send.response[10] = 1
    /\ send.success = FALSE

\* C7: set_zone_filtering for (mode 1, region 1 = (0, 0, -1000, 1000), regions
\* 2 and 3 zero) emits a command value that, read as 13 little-endian signed
\* 16-bit fields (the layout query_zone_filtering applies), gives back the
\* same 13 integers.
C7_ZoneRoundTrip ==
    (pc = "returned" /\ call.op = "set_zone_filtering" /\ call.args = ZoneExample) =>
        /\ send.called
        /\ Len(CommandValue(send.command)) = 26
        /\ ZoneFields(CommandValue(send.command), 0) = call.args

\* C8: for arguments in the signed 16-bit range, set_zone_filtering does not
\* raise and writes a 26-byte command value: the 13 arguments in order, each
\* as its little-endian 16-bit encoding, low byte first.
C8_ZoneValueEncoding ==
    (pc = "returned" /\ call.op = "set_zone_filtering") =>
        /\ ret.kind # "raise"
        /\ send.called
        /\ Len(CommandValue(send.command)) = 26
        /\ \A i \in 1..13 :
             LET u == (call.args[i] + 65536) % 65536
             IN  /\ CommandValue(send.command)[2 * i - 1] = u % 256
                 /\ CommandValue(send.command)[2 * i] = u \div 256

\* where the payload a builder parses ends in the response
PayloadEnd(op) ==
    CASE op = "query_target_tracking" -> 12
      [] op = "read_firmware_version" -> 18
      [] op = "get_mac_address" -> 22
      [] op = "query_zone_filtering" -> 36

PayloadBuilders ==
    { "query_target_tracking", "read_firmware_version",
      "get_mac_address", "query_zone_filtering" }

\* C9: whatever buffer the stream returns, a builder returns without raising;
\* and a payload-returning builder returns None whenever the status is
\* non-zero or the response is too short to hold its payload.
C9_BuildersNeverRaise ==
    Sent =>
        /\ ret.kind # "raise"
        /\ (/\ call.op \in PayloadBuilders
            /\ \/ Len(send.response) < PayloadEnd(call.op)
               \/ StatusOf(send.response) # 0)
           => ret = None

\* the rates the device accepts, in order
ClaimedBaudRates == {9600, 19200, 38400, 57600, 115200, 230400, 256000, 460800}

\* C10: set_serial_port_baud_rate with a rate outside the set raises ValueError
\* with no write and no read on the stream; with a rate of the set it makes
\* exactly one write, whose 2-byte command value is the little-endian index
\* of the rate in the ordered set.
C10_BaudRateArgument ==
    [][ (pc = "idle" /\ call'.op = "set_serial_port_baud_rate") =>
          LET baud_rate == call'.args[1]
              index == Cardinality({r \in ClaimedBaudRates : r < baud_rate})
          IN  IF baud_rate \notin ClaimedBaudRates
              THEN /\ ret' = Raise("ValueError")
                   /\ ser' = ser
                   /\ ~send'.called
              ELSE /\ ret'.kind = "value"
                   /\ ser'.writes = ser.writes + 1
                   /\ send'.called
                   /\ CommandValue(send'.command) = <<index % 256, index \div 256>>
      ]_vars

\* C10 witness: a call with a rate outside the set has raised ValueError after
\* an earlier command, and the stream still counts that one write and read.
C10_Witness ==
    /\ pc = "returned"
    /\ call.op = "set_serial_port_baud_rate"
    /\ call.args[1] \notin ClaimedBaudRates
    /\ ret = Raise("ValueError")
    /\ ~send.called
    /\ ser = [writes |-> 1, reads |-> 1]

(***************************************************************************)
(* The stream between the driver and the device.  The device puts report   *)
(* frames and acknowledgements on it; read_until takes bytes off its head. *)
(***************************************************************************)
\* report frames the device may have sent and nobody has read
MaxUnread == 2

\* read_until(marker) on the pending bytes buf, n of them taken so far: bytes
\* are taken one at a time until the bytes taken end with marker, or none is
\* left (the timeout); the number of bytes returned
RECURSIVE ReadLen(_, _, _)
ReadLen(buf, marker, n) ==
    IF n >= Len(buf) THEN Len(buf)
    ELSE IF /\ n + 1 >= Len(marker)
            /\ \A j \in 1..Len(marker) : buf[n + 1 - Len(marker) + j] = marker[j]
    THEN n + 1
    ELSE ReadLen(buf, marker, n + 1)

\* ser.read_until(marker): the bytes returned and the bytes left pending
ReadUntil(buf, marker) ==
    LET n == ReadLen(buf, marker, 0)
    IN  [data |-> SubSeq(buf, 1, n), rest |-> SubSeq(buf, n + 1, Len(buf))]

\* the device's acknowledgement of a command frame: header, length 4, the
\* command word with 01 as its second byte, the status, tail
AckOf(frame, status) ==
    COMMAND_HEADER \o ToBytes2LE(4) \o <<frame[7], 1>> \o ToBytes2LE(status)
    \o COMMAND_TAIL

\* the commands sent: enable configuration mode, query target tracking
StreamCommands ==
    { <<ToBytes2LE(4), <<255, 0>>, <<1, 0>>>>,
      <<ToBytes2LE(2), <<145, 0>>, BYTES_FROM_HEX_EMPTY>> }

\* the report frames the device sends: no target, and target 1 moving
StreamReports == { FrameWith(Zeros(24), 2, 0), FrameWith(Zeros(24), 2, 16) }

\* the device sends a report frame while no command is in flight
DeviceReport ==
    /\ pc = "idle"
    /\ Len(rx) < 30 * MaxUnread
    /\ \E frame \in StreamReports : rx' = rx \o frame
    /\ UNCHANGED <<pc, call, ret, send, stdout, ser, ack, tele, plot, retry>>

\* send_command, lines 84-92: the frame is built and written
SendCommandWrite ==
    /\ CanCall
    /\ \E c \in StreamCommands :
         /\ call' = [op |-> "send_command", args |-> c]
         /\ send' = [called |-> TRUE,
                     command |-> COMMAND_HEADER \o c[1] \o c[2] \o c[3]
                                 \o COMMAND_TAIL,
                     response |-> <<>>, success |-> FALSE]
    /\ ser' = [ser EXCEPT !.writes = @ + 1]
    /\ ack' = <<>>
    /\ pc' = "written"
    /\ UNCHANGED <<ret, stdout, rx, tele, plot, retry>>

\* the device answers the command written, once, with status 0 or 1
DeviceAck ==
    /\ pc = "written"
    /\ ack = <<>>
    /\ \E status \in {0, 1} :
       \E a \in {AckOf(send.command, status)} :
         /\ ack' = a
         /\ rx' = rx \o a
    /\ UNCHANGED <<pc, call, ret, send, stdout, ser, tele, plot, retry>>

\* send_command, lines 93-98: read_until(COMMAND_TAIL) returns once the
\* device has answered; the status is parsed and (response, success) returned
SendCommandRead ==
    /\ pc = "written"
    /\ ack # <<>>
    /\ \E got \in {ReadUntil(rx, COMMAND_TAIL)} :
       \E sc \in {send_command(call.args[1], call.args[2], call.args[3], got.data)} :
         /\ send' = sc
         /\ ret' = Value(<<sc.response, sc.success>>)
         /\ rx' = got.rest
    /\ ser' = [ser EXCEPT !.reads = @ + 1]
    /\ pc' = "returned"
    /\ UNCHANGED <<call, stdout, ack, tele, plot, retry>>

NextStream ==
    \/ DeviceReport
    \/ SendCommandWrite
    \/ DeviceAck
    \/ SendCommandRead
    \/ Return

SpecStream == Init /\ [][NextStream]_vars

\* C11: with commands issued one at a time and each answered by one
\* acknowledgement, the buffer send_command returns is the acknowledgement of
\* the command it wrote and its success flag is that acknowledgement's
\* status, also when report frames were unread in the stream at the write.
C11_ResponseIsOwnAck ==
    (pc = "returned" /\ call.op = "send_command") =>
        /\ send.response = ack
        /\ send.success <=> (StatusOf(ack) = 0)

(***************************************************************************)
(* The telemetry loop of print_targets: read_until(REPORT_TAIL), then      *)
(* read_radar_data on the chunk; None is dropped and the loop goes on.     *)
(***************************************************************************)
\* report frames the device places on the stream
MaxFrames == 3
\* reads that time out with nothing pending
MaxDiscards == 2

\* well-formed frames: x of target 1 is 16, and x of target 1 is 0xCC55, whose
\* two bytes 55 CC are the bytes of the tail marker
LoopFrames == { FrameWith(Zeros(24), 0, 16), FrameWith(Zeros(24), 0, 52309) }

\* the port is opened while a frame is on the wire: its last bytes arrive
DeviceCut ==
    /\ rx = <<>>
    /\ tele.discards = 0
    /\ tele.placed = <<>>
    /\ \E n \in {2, 10} :
         rx' = Slice(FrameWith(Zeros(24), 0, 16), 30 - n, 30)
    /\ UNCHANGED <<pc, call, ret, send, stdout, ser, ack, tele, plot, retry>>

\* the device places a whole well-formed frame on the stream; it is recorded
\* with whether a chunk had been discarded before
DevicePlace ==
    /\ Len(tele.placed) < MaxFrames
    /\ \E frame \in LoopFrames :
         /\ rx' = rx \o frame
         /\ tele' = [tele EXCEPT !.placed =
                        Append(@, [frame |-> frame, after |-> tele.discards > 0])]
    /\ UNCHANGED <<pc, call, ret, send, stdout, ser, ack, plot, retry>>

\* one turn of the while loop, lines 12-52: the chunk up to the first tail
\* marker (or what is pending at the timeout) is decoded; None is dropped by
\* continue, a decoded frame is printed; only an exception leaves the loop
PrintTargetsIteration ==
    /\ tele.running
    /\ rx # <<>> \/ tele.discards < MaxDiscards
    /\ \E got \in {ReadUntil(rx, REPORT_TAIL)} :
       \E r \in {read_radar_data(got.data)} :
         /\ rx' = got.rest
         /\ stdout' = r.out
         /\ tele' = [tele EXCEPT
                !.running = r.ret.kind # "raise",
                !.discards = IF r.ret.kind = "None" THEN @ + 1 ELSE @,
                !.delivered = IF r.ret.kind = "value"
                              THEN Append(@, [line |-> got.data, targets |-> r.ret.val])
                              ELSE @]
    /\ ser' = [ser EXCEPT !.reads = @ + 1]
    /\ UNCHANGED <<pc, call, ret, send, ack, plot, retry>>

NextLoop ==
    \/ DeviceCut
    \/ DevicePlace
    \/ PrintTargetsIteration

SpecLoop == Init /\ [][NextLoop]_vars

\* C12: a decode failure never ends the telemetry loop, and every well-formed
\* frame placed on the stream after a chunk has been discarded is decoded and
\* delivered: once the loop has read everything pending, none is missing.
C12_FramesAfterDiscardDelivered ==
    /\ tele.running
    /\ rx = <<>> =>
         \A i \in DOMAIN tele.placed :
            tele.placed[i].after =>
                \E j \in DOMAIN tele.delivered :
                    tele.delivered[j].line = tele.placed[i].frame

(***************************************************************************)
(* plot_targets: the serial_reader thread puts every chunk it reads in a   *)
(* queue.Queue; update_plot, called by the animation one call at a time,   *)
(* takes chunks out while the queue is not empty.  A chunk carries the     *)
(* number of the read that returned it, so that two equal chunks differ.   *)
(***************************************************************************)
\* chunks the reader thread reads
MaxChunks == 3

\* queue.Queue: put at the back, get from the front, empty()
QueuePut(q, item) == Append(q, item)
QueueGet(q) == [item |-> Head(q), rest |-> Tail(q)]
QueueEmpty(q) == q = <<>>

\* the same loop without its test
UpdatePlotEnters_Untested(q) == TRUE

\* line 26, while not data_queue.empty(): the loop body is entered
UpdatePlotEnters(q) == ~QueueEmpty(q)

\* what read_until(REPORT_TAIL) hands the reader: a frame, nothing (timeout),
\* a frame cut by a tail marker inside it, and the rest of that frame
PlotChunks ==
    { FrameWith(Zeros(24), 0, 16), <<>>,
      Slice(FrameWith(Zeros(24), 0, 52309), 0, 6),
      Slice(FrameWith(Zeros(24), 0, 52309), 6, 30) }

\* serial_reader, line 18: data = ser.read_until(REPORT_TAIL)
SerialReaderRead ==
    /\ plot.reader = "read"
    /\ Len(plot.readLog) < MaxChunks
    /\ \E d \in PlotChunks :
       \E c \in {[n |-> Len(plot.readLog) + 1, data |-> d]} :
         plot' = [plot EXCEPT !.data = c, !.reader = "put",
                              !.readLog = Append(@, c)]
    /\ ser' = [ser EXCEPT !.reads = @ + 1]
    /\ UNCHANGED <<pc, call, ret, send, stdout, rx, ack, tele, retry>>

\* serial_reader, line 19: data_queue.put(data)
SerialReaderPut ==
    /\ plot.reader = "put"
    /\ plot' = [plot EXCEPT !.queue = QueuePut(@, plot.data),
                            !.data = NoChunk, !.reader = "read"]
    /\ UNCHANGED <<pc, call, ret, send, stdout, ser, rx, ack, tele, retry>>

\* the animation calls update_plot; no call is in progress
UpdatePlotCall ==
    /\ plot.update = "idle"
    /\ plot' = [plot EXCEPT !.update = "test"]
    /\ UNCHANGED <<pc, call, ret, send, stdout, ser, rx, ack, tele, retry>>

\* update_plot, line 26: the loop test; line 66: return when it fails
UpdatePlotTest ==
    /\ plot.update = "test"
    /\ plot' = [plot EXCEPT !.update =
                    IF UpdatePlotEnters(plot.queue) THEN "get" ELSE "idle"]
    /\ UNCHANGED <<pc, call, ret, send, stdout, ser, rx, ack, tele, retry>>

\* the offsets update_plot gives the scatter plot for the decoded values v
PlotOffsets(v) == << <<v[1], v[2]>>, <<v[5], v[6]>>, <<v[9], v[10]>> >>

\* update_plot, lines 27-64: get() waits while the queue is empty; the chunk
\* taken is decoded if both markers are in it, and plotted if it decodes
UpdatePlotGet ==
    /\ plot.update = "get"
    /\ plot.queue # <<>>
    /\ \E got \in {QueueGet(plot.queue)} :
       \E marked \in {Contains(got.item.data, REPORT_HEADER)
                      /\ Contains(got.item.data, REPORT_TAIL)} :
       \E r \in {read_radar_data(got.item.data)} :
         /\ plot' = [plot EXCEPT
                !.queue = got.rest,
                !.gotLog = Append(@, got.item),
                !.offsets = IF marked /\ r.ret.kind = "value"
                            THEN PlotOffsets(r.ret.val) ELSE @,
                !.update = "test"]
         /\ stdout' = IF marked THEN r.out ELSE stdout
    /\ UNCHANGED <<pc, call, ret, send, ser, rx, ack, tele, retry>>

NextPlot ==
    \/ SerialReaderRead
    \/ SerialReaderPut
    \/ UpdatePlotCall
    \/ UpdatePlotTest
    \/ UpdatePlotGet

SpecPlot == Init /\ [][NextPlot]_vars

\* the chunk the reader has read and not yet put
PlotHeld == IF plot.reader = "put" THEN <<plot.data>> ELSE <<>>

\* C13: under every interleaving of the reader thread and the update_plot
\* calls, the chunks taken out, then those in the queue, then the one the
\* reader holds are exactly the chunks read, in the order read (none lost,
\* doubled or reordered), and a get() is only issued on a non-empty queue.
C13_QueueFifoNeverBlocks ==
    /\ plot.gotLog \o plot.queue \o PlotHeld = plot.readLog
    /\ \A i \in DOMAIN plot.readLog : plot.readLog[i].n = i
    /\ plot.update = "get" => plot.queue # <<>>

\* two chunks were taken out and a get() is issued while the reader, having
\* put a third chunk, holds nothing
C13_Witness ==
    /\ Len(plot.gotLog) = 2
    /\ plot.update = "get"
    /\ Len(plot.queue) = 1
    /\ plot.reader = "read"
    /\ plot.offsets # <<>>

(***************************************************************************)
(* parse_args: the connectivity loop.  Each attempt is one call of         *)
(* read_firmware_version on the opened port; results keeps what each       *)
(* attempt returned, or the exception it raised.                           *)
(***************************************************************************)
\* the literal "V0.0.0" of lines 82 and 90
V0_0_0 == <<"V", "0", ".", "0", ".", "0">>

\* the test of lines 82 and 90: version is None or version == "V0.0.0"
NoVersion(version) == version = None \/ version = Value(V0_0_0)

\* a loop whose break skips the decrement
TriesAfter_BreakSkips(number_of_tries, broke) ==
    IF broke THEN number_of_tries ELSE number_of_tries - 1

\* the finally clause, line 88, runs however the try block is left
TriesAfter(number_of_tries, broke) == number_of_tries - 1

\* the acknowledgement of read firmware version with the given fields
VersionAck(status, type, major, minor) ==
    COMMAND_HEADER \o ToBytes2LE(12) \o <<160, 1>> \o ToBytes2LE(status)
    \o ToBytes2LE(type) \o ToBytes2LE(major) \o <<minor, 0, 0, 0>>
    \o COMMAND_TAIL

\* what read_until returns to an attempt: nothing within the timeout, a
\* failing status, a version of zeros, and two versions
RetryReads ==
    { <<>>, VersionAck(1, 1, 2, 3), VersionAck(0, 0, 0, 0),
      VersionAck(0, 1, 2, 3), VersionAck(0, 0, 0, 7) }

\* lines 78-88, one turn of the loop in which read_firmware_version returns
ParseArgsAttempt ==
    /\ retry.pc = "while"
    /\ retry.number_of_tries > 0
    /\ \E read \in RetryReads :
       \E sc \in {send_command(ToBytes2LE(2), <<160, 0>>, BYTES_FROM_HEX_EMPTY, read)} :
       \E r \in {read_firmware_version_result(sc, FALSE)} :
       \E broke \in {~NoVersion(r.ret)} :
         /\ retry' = [retry EXCEPT
                !.version = r.ret,
                !.results = Append(@, r.ret),
                !.number_of_tries = TriesAfter(@, broke),
                !.pc = IF broke THEN "check" ELSE "while"]
         /\ stdout' = r.out
    /\ ser' = [writes |-> ser.writes + 1, reads |-> ser.reads + 1]
    /\ UNCHANGED <<pc, call, ret, send, rx, ack, tele, plot>>

\* lines 78-88, a turn in which the port raises: the finally clause runs and
\* the exception leaves parse_args
ParseArgsAttemptRaises ==
    /\ retry.pc = "while"
    /\ retry.number_of_tries > 0
    /\ retry' = [retry EXCEPT
            !.results = Append(@, Raise("SerialException")),
            !.number_of_tries = TriesAfter(@, FALSE),
            !.ret = Raise("SerialException"),
            !.pc = "raised"]
    /\ UNCHANGED <<pc, call, ret, send, stdout, ser, rx, ack, tele, plot>>

\* line 78: the loop test fails
ParseArgsLoopExit ==
    /\ retry.pc = "while"
    /\ ~(retry.number_of_tries > 0)
    /\ retry' = [retry EXCEPT !.pc = "check"]
    /\ UNCHANGED <<pc, call, ret, send, stdout, ser, rx, ack, tele, plot>>

\* lines 90-96: ConnectionError, or the version is returned
ParseArgsCheck ==
    /\ retry.pc = "check"
    /\ retry' = IF NoVersion(retry.version)
                THEN [retry EXCEPT !.pc = "raised", !.ret = Raise("ConnectionError")]
                ELSE [retry EXCEPT !.pc = "returned", !.ret = retry.version]
    /\ UNCHANGED <<pc, call, ret, send, stdout, ser, rx, ack, tele, plot>>

NextRetry ==
    \/ ParseArgsAttempt
    \/ ParseArgsAttemptRaises
    \/ ParseArgsLoopExit
    \/ ParseArgsCheck

\* parse_args is sequential code whose reads time out: it keeps stepping
SpecRetry == Init /\ [][NextRetry]_vars /\ WF_vars(NextRetry)

RetryDone == retry.pc \in {"returned", "raised"}

RetryStopsAtFirstVersion ==
    /\ retry.number_of_tries + Len(retry.results) = NumberOfTries
    /\ Len(retry.results) <= NumberOfTries
    /\ \A i \in 1..(Len(retry.results) - 1) : NoVersion(retry.results[i])
    /\ retry.pc = "while" => \A i \in DOMAIN retry.results : NoVersion(retry.results[i])
    /\ retry.pc = "returned" =>
         /\ retry.results # <<>>
         /\ retry.ret = retry.results[Len(retry.results)]
         /\ retry.ret.kind = "value"
         /\ ~NoVersion(retry.ret)
    /\ (retry.pc = "raised" /\ retry.ret = Raise("ConnectionError"))
       <=> /\ RetryDone
           /\ Len(retry.results) = NumberOfTries
           /\ \A i \in DOMAIN retry.results : NoVersion(retry.results[i])

\* C14: the connectivity loop ends after at most 5 calls of
\* read_firmware_version; it stops at the first attempt that returns a version
\* other than None and "V0.0.0" and returns it; it raises ConnectionError if
\* and only if all 5 attempts returned None or "V0.0.0"; and number_of_tries
\* goes down by one with every attempt, the one that succeeds included.
C14_RetryLoop == []RetryStopsAtFirstVersion /\ <>RetryDone

\* the fifth attempt succeeds: the counter is 0 and the version is returned
C14_Witness ==
    /\ retry.pc = "returned"
    /\ retry.number_of_tries = 0
    /\ Len(retry.results) = NumberOfTries

=============================================================================
